---- MODULE Spec2Model ----
(***************************************************************************)
(* Model of src/generators/services-files.ts: generateServices walks the   *)
(* paths of an OpenAPI description, validates the declared verbs of each   *)
(* path and, per (path, verb), resolves a service/method name, gets or     *)
(* creates the service module and class in the ts-morph project, registers *)
(* the type imports and appends one method.                                *)
(*                                                                         *)
(* Strings are sequences of lexemes (<<"User", "Controller", "_", "get">>  *)
(* is "UserController_get"); the lexemes are chosen so that the separator  *)
(* '_' and the word 'Controller' occur only as whole lexemes.  A JS value  *)
(* that may be undefined is a record with a presence flag; an undefined or *)
(* empty type name is the falsy string "".                                 *)
(***************************************************************************)
EXTENDS Naturals, Sequences, FiniteSets, TLC

VARIABLES
    spec,         \* the OpenAPI description handed to generateServices
    project,      \* the ts-morph Project: the service source files, in creation order
    pathIndex,    \* position of the outer forEach over entries(spec.paths)
    methodIndex,  \* position of the inner forEach over keys(pathSpec)
    pc,           \* "validate" | "operations" | "done" | "failed"
    error,        \* the Error thrown by generateServices, if any
    processed     \* history: the calls of serviceFromPathSpecification, in order

vars == <<spec, project, pathIndex, methodIndex, pc, error, processed>>

-----------------------------------------------------------------------------
(* Bounds of the model. *)

MaxPaths == 2
MaxOps == 3
MaxIdLen == 4
MaxParams == 2

-----------------------------------------------------------------------------
(* Generic helpers on sequences. *)

Range(s) == {s[i] : i \in 1..Len(s)}

SeqsUpTo(S, n) == UNION {[1..k -> S] : k \in 0..n}

IsInjective(s) == \A i, j \in 1..Len(s) : s[i] = s[j] => i = j

RECURSIVE SumLen(_)
SumLen(ss) == IF ss = <<>> THEN 0 ELSE Len(Head(ss)) + SumLen(Tail(ss))

\* Array.prototype.includes
Includes(list, x) == \E i \in 1..Len(list) : list[i] = x

-----------------------------------------------------------------------------
(* Name resolution. *)

\* A mutation of knownOperations: 'trace' is taken for a known operation.
knownOperationsWithTrace == <<"post", "get", "patch", "delete", "put", "trace">>

knownOperations == <<"post", "get", "patch", "delete", "put">>

\* String.prototype.split('_'): the segments between the separators; the
\* empty string splits into one empty segment.
Split(s, sep) ==
    LET F[i \in 0..Len(s)] ==
            IF i = 0 THEN << <<>> >>
            ELSE LET prev == F[i - 1] IN
                 IF s[i] = sep
                 THEN Append(prev, <<>>)
                 ELSE [prev EXCEPT ![Len(prev)] = Append(@, s[i])]
    IN F[Len(s)]

\* String.prototype.replace(/Controller/, 'Service'): a regular expression
\* without the g flag replaces the first match only, wherever it is.
ReplaceFirst(s, pattern, replacement) ==
    IF \E i \in 1..Len(s) : s[i] = pattern
    THEN LET first == CHOOSE i \in 1..Len(s) :
                          /\ s[i] = pattern
                          /\ \A j \in 1..(i - 1) : s[j] # pattern
         IN [s EXCEPT ![first] = replacement]
    ELSE s

\* A mutation of dataFromOperationId: the length test is "< 2" instead of
\* "!== 2", so an identifier of three or more segments resolves by its first two.
dataFromOperationIdLenient(operationId) ==
    LET name == IF operationId.present THEN Split(operationId.value, "_") ELSE <<>> IN
    IF Len(name) < 2
    THEN [fileName |-> <<"Service">>, methodName |-> <<"unknownName">>]
    ELSE [fileName |-> ReplaceFirst(name[1], "Controller", "Service"),
          methodName |-> name[2]]

dataFromOperationId(operationId) ==
    LET name == IF operationId.present THEN Split(operationId.value, "_") ELSE <<>> IN
    IF Len(name) # 2
    THEN [fileName |-> <<"Service">>, methodName |-> <<"unknownName">>]
    ELSE [fileName |-> ReplaceFirst(name[1], "Controller", "Service"),
          methodName |-> name[2]]

-----------------------------------------------------------------------------
(* The ts-morph project: source files, classes, imports. *)

RootDir == <<"generated">>

\* The models source file handed in as modelsFile, by its module specifier.
ModelsFile == "../models"

\* path.join(rootDir, 'services', `${fileName}.ts`).  The lexemes of a file
\* name are identifier words (no '/', no '..'), which path.join's
\* normalisation leaves as written.
FilePath(rootDir, fileName) ==
    [dir |-> rootDir \o <<"services">>, base |-> fileName \o <<".ts">>]

\* project.getSourceFile(filePath): the position of the first source file at
\* that path, 0 for undefined.
GetSourceFile(proj, filePath) ==
    IF \E i \in 1..Len(proj) : proj[i].filePath = filePath
    THEN CHOOSE i \in 1..Len(proj) :
             /\ proj[i].filePath = filePath
             /\ \A j \in 1..(i - 1) : proj[j].filePath # filePath
    ELSE 0

\* project.createSourceFile(filePath, {statements: [`import type { Configuration } from '../utils'`]})
CreateSourceFile(filePath) ==
    [filePath |-> filePath,
     imports  |-> << [from |-> "../utils", name |-> "Configuration"] >>,
     classes  |-> <<>>]

\* Returns the project after the call and the position of the returned file.
getOrCreateServiceFile(proj, filePath) ==
    IF GetSourceFile(proj, filePath) # 0
    THEN [project |-> proj, at |-> GetSourceFile(proj, filePath)]
    ELSE [project |-> Append(proj, CreateSourceFile(filePath)), at |-> Len(proj) + 1]

\* serviceFile.getClass(fileName): the position of the first class of that
\* name, 0 for undefined.
GetClass(serviceFile, fileName) ==
    LET cs == serviceFile.classes IN
    IF \E i \in 1..Len(cs) : cs[i].name = fileName
    THEN CHOOSE i \in 1..Len(cs) :
             /\ cs[i].name = fileName
             /\ \A j \in 1..(i - 1) : cs[j].name # fileName
    ELSE 0

\* The class structure passed to serviceFile.addClass.
ClassStructure(fileName) ==
    [name       |-> fileName,
     isExported |-> TRUE,
     ctors      |-> << [parameters |-> << [name  |-> "configuration",
                                          type  |-> "Configuration",
                                          scope |-> "private"] >>] >>,
     methods    |-> <<>>]

\* A mutation of getOrCreateServiceClass: the class is added on every call.
getOrCreateServiceClassAlways(serviceFile, fileName) ==
    [serviceFile |-> [serviceFile EXCEPT !.classes = Append(@, ClassStructure(fileName))],
     at          |-> Len(serviceFile.classes) + 1]

\* Returns the source file after the call and the position of the returned class.
getOrCreateServiceClass(serviceFile, fileName) ==
    IF GetClass(serviceFile, fileName) # 0
    THEN [serviceFile |-> serviceFile, at |-> GetClass(serviceFile, fileName)]
    ELSE [serviceFile |-> [serviceFile EXCEPT !.classes = Append(@, ClassStructure(fileName))],
          at          |-> Len(serviceFile.classes) + 1]

\* A mutation of nameSpace.addMethod: a method of the same name is replaced.
AddMethodReplacing(class, method) ==
    IF \E i \in 1..Len(class.methods) : class.methods[i].name = method.name
    THEN LET i == CHOOSE k \in 1..Len(class.methods) : class.methods[k].name = method.name
         IN [class EXCEPT !.methods[i] = method]
    ELSE [class EXCEPT !.methods = Append(@, method)]

\* nameSpace.addMethod(structure): the method is appended to the class.
AddMethod(class, method) == [class EXCEPT !.methods = Append(@, method)]

-----------------------------------------------------------------------------
(* Collaborators of ../utils and ../fp, which are not part of the source     *)
(* at hand; modelled from the specification.                                 *)

\* extractContentSchema('bodyArgs', operationSpec): the body record of an
\* operation that declares a request body with structured content.
extractContentSchema(operationSpec) ==
    LET rb == operationSpec.requestBody IN
    IF rb.declared /\ rb.hasContent
    THEN [present |-> TRUE, contentName |-> rb.contentName,
          imports |-> rb.imports, required |-> rb.required]
    ELSE [present |-> FALSE, contentName |-> "", imports |-> "", required |-> FALSE]

\* extractResponseType(operationSpec): the response schema, if one is declared.
extractResponseType(operationSpec) ==
    IF operationSpec.response.present
    THEN [present |-> TRUE, typeName |-> operationSpec.response.typeName]
    ELSE [present |-> FALSE, typeName |-> ""]

\* rejectFalsy(list): the truthy elements, in order.
rejectFalsy(list) ==
    LET Truthy(x) == x # "" IN SelectSeq(list, Truthy)

\* groupBy(item => item.in, parameters): location -> the parameters of that
\* location in declaration order; a location without parameter has no key.
groupBy(parameters) ==
    [loc \in {parameters[i].in : i \in 1..Len(parameters)} |->
        LET At(p) == p.in = loc IN SelectSeq(parameters, At)]

\* groupedInParams.<loc>, with undefined read as the empty list.
Group(groupedInParams, loc) ==
    IF loc \in DOMAIN groupedInParams THEN groupedInParams[loc] ELSE <<>>

\* obj[key] = value on a JS object: an own key is unique and keeps its place.
ObjectSet(obj, key, value) ==
    IF \E i \in 1..Len(obj) : obj[i].key = key
    THEN [i \in 1..Len(obj) |->
             IF obj[i].key = key THEN [key |-> key, value |-> value] ELSE obj[i]]
    ELSE Append(obj, [key |-> key, value |-> value])

\* listToObject(list, item => [item.name, `props['${item.name}']`])
RECURSIVE listToObject(_)
listToObject(list) ==
    IF list = <<>> THEN <<>>
    ELSE LET item == list[Len(list)] IN
         ObjectSet(listToObject(SubSeq(list, 1, Len(list) - 1)),
                   item.name, [target |-> "props", key |-> item.name])

\* includeOrCreateNamedImport({inFile, fromTargetFile, namedImports}): each
\* name is imported from the target file unless the file imports it already.
RECURSIVE includeOrCreateNamedImport(_, _, _)
includeOrCreateNamedImport(inFile, fromTargetFile, namedImports) ==
    IF namedImports = <<>> THEN inFile
    ELSE LET entry == [from |-> fromTargetFile, name |-> Head(namedImports)]
             next  == IF Includes(inFile.imports, entry)
                      THEN inFile
                      ELSE [inFile EXCEPT !.imports = Append(@, entry)]
         IN includeOrCreateNamedImport(next, fromTargetFile, Tail(namedImports))

\* pathArgsToTemplate(rawPath): a path argument {x} becomes the template
\* placeholder ${x}.
PathArgs == {"{id}"}
pathArgsToTemplate(rawPath) ==
    [i \in 1..Len(rawPath) |->
        IF rawPath[i] \in PathArgs THEN "$" \o rawPath[i] ELSE rawPath[i]]

\* String.prototype.toUpperCase on an HTTP verb.
toUpperCase(method) ==
    CASE method = "post"   -> "POST"
      [] method = "get"    -> "GET"
      [] method = "patch"  -> "PATCH"
      [] method = "delete" -> "DELETE"
      [] method = "put"    -> "PUT"
      [] method = "head"   -> "HEAD"
      [] method = "trace"  -> "TRACE"
      [] OTHER             -> method

-----------------------------------------------------------------------------
(* Method synthesis: serviceFromPathSpecification. *)

Literal(text) == [kind |-> "literal", text |-> text, entries |-> <<>>]

PropsAccess(name) == [kind |-> "access", text |-> name, entries |-> <<>>]

\* Writers.object(obj): one property per own key of obj.
ObjectWriter(obj) == [kind |-> "object", text |-> "", entries |-> obj]

\* A mutation of hasParameters: the declared parameters are forgotten.
HasParametersBodyOnly(bodyParams, parameters) == bodyParams.present

\* const hasParameters = bodyParams || operationSpec.parameters.length
HasParameters(bodyParams, parameters) ==
    bodyParams.present \/ Len(parameters) # 0

\* The parameters of the method structure: rejectFalsy([hasParameters && {props}]).
MethodParameters(bodyParams, parameters) ==
    IF HasParameters(bodyParams, parameters)
    THEN << [name |-> "props",
             properties |->
                 (IF bodyParams.present
                  THEN << [name |-> bodyParams.contentName,
                           hasQuestionToken |-> ~bodyParams.required] >>
                  ELSE <<>>)
                 \o [i \in 1..Len(parameters) |->
                        [name |-> parameters[i].name,
                         hasQuestionToken |-> ~parameters[i].required]]] >>
    ELSE <<>>

\* A mutation of the queryParams field: the object is built from every
\* declared parameter instead of the query group.
QueryParamsOfAll(parameters) ==
    IF Len(parameters) # 0
    THEN ObjectWriter(listToObject(parameters))
    ELSE Literal("undefined")

\* queryParams: groupedInParams.query?.length ? Writers.object(listToObject(...)) : 'undefined'
QueryParams(parameters) ==
    LET groupedInParams == groupBy(parameters) IN
    IF Len(Group(groupedInParams, "query")) # 0
    THEN ObjectWriter(listToObject(Group(groupedInParams, "query")))
    ELSE Literal("undefined")

\* The structure passed to nameSpace.addMethod.
MethodStructure(rawPath, method, operationSpec, methodName) ==
    LET returnType  == extractResponseType(operationSpec)
        bodyParams  == extractContentSchema(operationSpec)
        parameters  == operationSpec.parameters
        pathParams  == Group(groupBy(parameters), "path")
    IN [name           |-> methodName,
        parameters     |-> MethodParameters(bodyParams, parameters),
        configDestruct |-> <<"baseUrl", "adapter">>,
        propsDestruct  |-> [i \in 1..Len(pathParams) |-> pathParams[i].name],
        parametricType |-> [void |-> ~returnType.present, typeName |-> returnType.typeName],
        url            |-> <<"${baseUrl}">> \o pathArgsToTemplate(rawPath),
        method         |-> toUpperCase(method),
        queryParams    |-> QueryParams(parameters),
        bodyArgs       |-> IF bodyParams.present
                           THEN PropsAccess(bodyParams.contentName)
                           ELSE Literal("undefined")]

\* A mutation of the import step: the names are added to the service file
\* without going through includeOrCreateNamedImport.
RegisterImportsDirectly(serviceFile, operationSpec) ==
    LET bodyParams == extractContentSchema(operationSpec)
        returnType == extractResponseType(operationSpec)
        potentialImportsToInclude == rejectFalsy(<<bodyParams.imports, returnType.typeName>>)
    IN [serviceFile EXCEPT !.imports =
            @ \o [i \in 1..Len(potentialImportsToInclude) |->
                     [from |-> ModelsFile, name |-> potentialImportsToInclude[i]]]]

\* potentialImportsToInclude and the guarded call of includeOrCreateNamedImport.
RegisterImports(serviceFile, operationSpec) ==
    LET bodyParams == extractContentSchema(operationSpec)
        returnType == extractResponseType(operationSpec)
        potentialImportsToInclude == rejectFalsy(<<bodyParams.imports, returnType.typeName>>)
    IN IF Len(potentialImportsToInclude) # 0
       THEN includeOrCreateNamedImport(serviceFile, ModelsFile, potentialImportsToInclude)
       ELSE serviceFile

\* pathSpec[method]
OperationOf(pathSpec, method) ==
    LET i == CHOOSE k \in 1..Len(pathSpec) : pathSpec[k].method = method
    IN pathSpec[i].operation

\* The project after serviceFromPathSpecification({rawPath, method, pathSpec, project, rootDir, ...}).
serviceFromPathSpecification(proj, rawPath, method, pathSpec) ==
    LET operationSpec == OperationOf(pathSpec, method)
        data          == dataFromOperationId(operationSpec.operationId)
        filePath      == FilePath(RootDir, data.fileName)
        gotFile       == getOrCreateServiceFile(proj, filePath)
        gotClass      == getOrCreateServiceClass(gotFile.project[gotFile.at], data.fileName)
        withImports   == RegisterImports(gotClass.serviceFile, operationSpec)
        structure     == MethodStructure(rawPath, method, operationSpec, data.methodName)
        withMethod    == [withImports EXCEPT
                             !.classes[gotClass.at] = AddMethod(@, structure)]
    IN [gotFile.project EXCEPT ![gotFile.at] = withMethod]

-----------------------------------------------------------------------------
(* The driver: generateServices. *)

\* keys(pathSpec)
Keys(pathSpec) == [i \in 1..Len(pathSpec) |-> pathSpec[i].method]

\* A mutation of the filter: only the first unknown operation is kept.
UnknownOperationsFirstOnly(pathSpecMethods) ==
    LET Unknown(operation) == ~Includes(knownOperations, operation)
        all == SelectSeq(pathSpecMethods, Unknown)
    IN IF all = <<>> THEN <<>> ELSE <<Head(all)>>

\* pathSpecMethods.filter(operation => !knownOperations.includes(operation))
UnknownOperations(pathSpecMethods) ==
    LET Unknown(operation) == ~Includes(knownOperations, operation)
    IN SelectSeq(pathSpecMethods, Unknown)

NoError == [thrown |-> FALSE, rawPath |-> <<>>, unknownOperations |-> <<>>]

\* The state in which generateServices is called on description d.
Start(d) ==
    /\ spec = d
    /\ project = <<>>
    /\ pathIndex = 1
    /\ methodIndex = 1
    /\ pc = "validate"
    /\ error = NoError
    /\ processed = <<>>

\* The verb check of the current path fails: generateServices throws.
ThrowUnknownOperations ==
    /\ pc = "validate"
    /\ pathIndex <= Len(spec.paths)
    /\ LET entry == spec.paths[pathIndex]
           unknownOperations == UnknownOperations(Keys(entry.pathSpec))
       IN /\ Len(unknownOperations) # 0
          /\ error' = [thrown |-> TRUE, rawPath |-> entry.rawPath,
                       unknownOperations |-> unknownOperations]
    /\ pc' = "failed"
    /\ UNCHANGED <<spec, project, pathIndex, methodIndex, processed>>

\* The verb check of the current path passes: its operations are iterated.
ValidatePath ==
    /\ pc = "validate"
    /\ pathIndex <= Len(spec.paths)
    /\ Len(UnknownOperations(Keys(spec.paths[pathIndex].pathSpec))) = 0
    /\ pc' = "operations"
    /\ methodIndex' = 1
    /\ UNCHANGED <<spec, project, pathIndex, error, processed>>

\* One iteration of pathSpecMethods.forEach: serviceFromPathSpecification.
ProcessOperation ==
    /\ pc = "operations"
    /\ methodIndex <= Len(spec.paths[pathIndex].pathSpec)
    /\ LET entry  == spec.paths[pathIndex]
           method == Keys(entry.pathSpec)[methodIndex]
           data   == dataFromOperationId(OperationOf(entry.pathSpec, method).operationId)
       IN /\ project' = serviceFromPathSpecification(project, entry.rawPath, method, entry.pathSpec)
          /\ processed' = Append(processed,
                                 [rawPath |-> entry.rawPath, method |-> method,
                                  pathIndex |-> pathIndex, methodIndex |-> methodIndex,
                                  fileName |-> data.fileName, methodName |-> data.methodName])
    /\ methodIndex' = methodIndex + 1
    /\ UNCHANGED <<spec, pathIndex, pc, error>>

\* The inner forEach is over: the outer forEach moves to the next path.
NextPath ==
    /\ pc = "operations"
    /\ methodIndex > Len(spec.paths[pathIndex].pathSpec)
    /\ pathIndex' = pathIndex + 1
    /\ pc' = "validate"
    /\ UNCHANGED <<spec, project, methodIndex, error, processed>>

\* The outer forEach is over: generateServices returns.
Return ==
    /\ pc = "validate"
    /\ pathIndex > Len(spec.paths)
    /\ pc' = "done"
    /\ UNCHANGED <<spec, project, pathIndex, methodIndex, error, processed>>

Next ==
    \/ ThrowUnknownOperations
    \/ ValidatePath
    \/ ProcessOperation
    \/ NextPath
    \/ Return

-----------------------------------------------------------------------------
(* The descriptions generateServices is run on. *)

Id(s) == [present |-> TRUE, value |-> s]
NoId == [present |-> FALSE, value |-> <<>>]

NoBody ==
    [declared |-> FALSE, hasContent |-> FALSE, contentName |-> "",
     imports |-> "", required |-> FALSE]
EmptyBody ==
    [declared |-> TRUE, hasContent |-> FALSE, contentName |-> "",
     imports |-> "", required |-> TRUE]
Body(imports, required) ==
    [declared |-> TRUE, hasContent |-> TRUE, contentName |-> "body",
     imports |-> imports, required |-> required]

NoResponse == [present |-> FALSE, typeName |-> ""]
Response(typeName) == [present |-> TRUE, typeName |-> typeName]

Operation(operationId, parameters, requestBody, response) ==
    [operationId |-> operationId, parameters |-> parameters,
     requestBody |-> requestBody, response |-> response]

\* The paths of a description, in iteration order; a description of n paths
\* has the first n of them as its keys.
AllPaths ==
    << <<"/users/", "{id}">>, <<"/users">>, <<"/pets">>, <<"/pets/", "{id}">> >>

\* The verbs a path item may declare: two known ones, two unknown ones.
DeclaredVerbs == {"get", "post", "trace", "head"}

GetUser ==
    Operation(Id(<<"User", "Controller", "_", "getUser">>),
              << [name |-> "id", in |-> "path", required |-> TRUE] >>,
              Body("User", TRUE), Response("User"))
ListUsers ==
    Operation(Id(<<"User", "Controller", "_", "listUsers">>),
              << [name |-> "q", in |-> "query", required |-> FALSE] >>,
              NoBody, Response("UserList"))
Weird == Operation(Id(<<"Weird">>), <<>>, NoBody, NoResponse)
Anonymous == Operation(NoId, <<>>, NoBody, Response("User"))

DriverOperations == {GetUser, ListUsers, Weird, Anonymous}

\* The declared verbs of a path item, in declaration order: a key occurs once.
VerbLists == {verbs \in SeqsUpTo(DeclaredVerbs, MaxOps) : IsInjective(verbs)}

\* The shapes of a description: per path (at most MaxPaths of them) its verb
\* list, with at most MaxOps declared operations in the whole description.
Shapes ==
    {shape \in SeqsUpTo(VerbLists, MaxPaths) :
        Len(shape) <= Len(AllPaths) /\ SumLen(shape) <= MaxOps}

\* The description of the given shape whose k-th declared operation, in
\* iteration order, is operations[k].
Describe(shape, operations) ==
    [paths |->
        [i \in 1..Len(shape) |->
            [rawPath  |-> AllPaths[i],
             pathSpec |-> [j \in 1..Len(shape[i]) |->
                              [method    |-> shape[i][j],
                               operation |-> operations[SumLen(SubSeq(shape, 1, i - 1)) + j]]]]]]

\* The operation under an unknown verb is never read and is fixed.
UnreadFixed(d) ==
    \A i \in 1..Len(d.paths) : \A j \in 1..Len(d.paths[i].pathSpec) :
        ~Includes(knownOperations, d.paths[i].pathSpec[j].method)
            => d.paths[i].pathSpec[j].operation = Weird

Init ==
    \E shape \in Shapes :
        \E operations \in [1..SumLen(shape) -> DriverOperations] :
            /\ UnreadFixed(Describe(shape, operations))
            /\ Start(Describe(shape, operations))

Spec == Init /\ [][Next]_vars

\* One path with one verb: the operation identifiers up to MaxIdLen lexemes.
IdLexemes == {"User", "Controller", "_", "get"}

ResolverOperations ==
    {Operation(operationId, <<>>, NoBody, Response("User")) :
        operationId \in {NoId} \cup {Id(s) : s \in SeqsUpTo(IdLexemes, MaxIdLen)}}

SinglePath(method, operation) ==
    [paths |-> << [rawPath |-> AllPaths[1],
                   pathSpec |-> << [method |-> method, operation |-> operation] >>] >>]

ResolverDescriptions ==
    {SinglePath("get", operation) : operation \in ResolverOperations}
        \cup {SinglePath("trace", Weird)}

InitResolver == \E d \in ResolverDescriptions : Start(d)

SpecResolver == InitResolver /\ [][Next]_vars

\* One path with one verb: the parameter lists up to MaxParams parameters,
\* with and without request body and response.
Parameters ==
    [name : {"id", "q"}, in : {"path", "query", "header"}, required : BOOLEAN]

SynthOperations ==
    {Operation(Id(<<"User", "Controller", "_", "get">>), parameters, requestBody, response) :
        parameters \in SeqsUpTo(Parameters, MaxParams),
        requestBody \in {NoBody, EmptyBody, Body("User", TRUE), Body("", FALSE)},
        response \in {NoResponse, Response("User")}}

SynthDescriptions ==
    {SinglePath("get", operation) : operation \in SynthOperations}
        \cup {SinglePath("trace", Weird)}

InitSynth == \E d \in SynthDescriptions : Start(d)

SpecSynth == InitSynth /\ [][Next]_vars

-----------------------------------------------------------------------------
(* Vocabulary of the properties. *)

\* The verbs the contract accepts, as the specification lists them.
KnownVerbs == {"post", "get", "patch", "delete", "put"}

DeclaredAt(i) == Keys(spec.paths[i].pathSpec)

UnknownAt(i) == {v \in Range(DeclaredAt(i)) : v \notin KnownVerbs}

BadPath(i) == UnknownAt(i) # {}

OperationAt(i, j) == spec.paths[i].pathSpec[j].operation

\* The (path, verb) pairs of the paths before path i, in iteration order.
RECURSIVE PairsBefore(_)
PairsBefore(i) ==
    IF i <= 1 THEN <<>>
    ELSE PairsBefore(i - 1)
         \o [j \in 1..Len(DeclaredAt(i - 1)) |-> <<i - 1, j>>]

\* The positions <<file, class, method>> of the methods of the project.
MethodPositions ==
    UNION {UNION {{<<f, c, m>> : m \in 1..Len(project[f].classes[c].methods)} :
                  c \in 1..Len(project[f].classes)} :
           f \in 1..Len(project)}

ClassPositions ==
    UNION {{<<f, c>> : c \in 1..Len(project[f].classes)} : f \in 1..Len(project)}

ClassesNamed(n) == {p \in ClassPositions : project[p[1]].classes[p[2]].name = n}

MethodAt(p) == project[p[1]].classes[p[2]].methods[p[3]]

\* The url of the request descriptor generated for a raw path.
UrlOf(rawPath) == <<"${baseUrl}">> \o pathArgsToTemplate(rawPath)

\* The number of '_' separators of an operation identifier.
Separators(value) == Cardinality({i \in 1..Len(value) : value[i] = "_"})

\* An identifier that does not split into exactly two segments.
Malformed(operationId) == ~operationId.present \/ Separators(operationId.value) # 1

ServiceNames == {processed[k].fileName : k \in 1..Len(processed)}

HasBodySchema(operation) ==
    operation.requestBody.declared /\ operation.requestBody.hasContent

\* The type names an operation refers to.
ReferencedTypes(operation) ==
    {n \in {operation.response.typeName,
            IF HasBodySchema(operation) THEN operation.requestBody.imports ELSE ""} :
        /\ n # ""
        /\ n = operation.response.typeName => operation.response.present}

-----------------------------------------------------------------------------
C2_RegistryIdentity ==
    /\ \A k, l \in 1..Len(processed) :
         k < l => \/ processed[k].pathIndex < processed[l].pathIndex
                  \/ /\ processed[k].pathIndex = processed[l].pathIndex
                     /\ processed[k].methodIndex < processed[l].methodIndex
    /\ Len(project) = Cardinality(ServiceNames)
    /\ Cardinality(ClassPositions) = Cardinality(ServiceNames)
    /\ \A n \in ServiceNames :
         /\ Cardinality({f \in 1..Len(project) :
                            project[f].filePath = FilePath(RootDir, n)}) = 1
         /\ Cardinality(ClassesNamed(n)) = 1
         /\ \A p \in ClassesNamed(n) :
              LET Mine(e) == e.fileName = n
                  mine    == SelectSeq(processed, Mine)
                  methods == project[p[1]].classes[p[2]].methods
              IN /\ project[p[1]].filePath = FilePath(RootDir, n)
                 /\ Len(methods) = Len(mine)
                 /\ \A k \in 1..Len(mine) :
                      /\ methods[k].name = mine[k].methodName
                      /\ methods[k].url = UrlOf(mine[k].rawPath)
                      /\ methods[k].method = toUpperCase(mine[k].method)

\* Two services, one of which got two methods from two verbs of one path.
C2_Witness ==
    /\ pc = "done"
    /\ Len(project) = 2
    /\ Len(processed) = 3
    /\ processed[1].pathIndex = processed[2].pathIndex
    /\ processed[1].fileName = processed[2].fileName
    /\ processed[3].fileName # processed[1].fileName

(* C3: an identifier "A_B" of exactly two segments resolves to the service *)
(* name A with its suffix 'Controller' rewritten to 'Service' (A unchanged *)
(* without that suffix) and to the method name B.                          *)
C3_SuffixRewritten ==
    \A k \in 1..Len(processed) :
        LET operationId == OperationAt(processed[k].pathIndex, processed[k].methodIndex).operationId
            value == operationId.value
        IN ~Malformed(operationId) =>
             LET at == CHOOSE i \in 1..Len(value) : value[i] = "_"
                 A  == SubSeq(value, 1, at - 1)
                 B  == SubSeq(value, at + 1, Len(value))
             IN /\ processed[k].methodName = B
                /\ processed[k].fileName =
                       IF Len(A) > 0 /\ A[Len(A)] = "Controller"
                       THEN [A EXCEPT ![Len(A)] = "Service"]
                       ELSE A

(* C4: an identifier that does not split into exactly two segments (absent, *)
(* no separator, two or more separators) resolves to ('Service',           *)
(* 'unknownName') without raising, and generation appends a method         *)
(* 'unknownName' to the class 'Service'.                                   *)
C4_MalformedFallsBack ==
    \A k \in 1..Len(processed) :
        LET operationId == OperationAt(processed[k].pathIndex, processed[k].methodIndex).operationId
        IN Malformed(operationId) =>
             /\ processed[k].fileName = <<"Service">>
             /\ processed[k].methodName = <<"unknownName">>
             /\ pc # "failed"
             /\ \E p \in MethodPositions :
                  /\ project[p[1]].filePath = FilePath(RootDir, <<"Service">>)
                  /\ project[p[1]].classes[p[2]].name = <<"Service">>
                  /\ MethodAt(p).name = <<"unknownName">>
                  /\ MethodAt(p).url = UrlOf(processed[k].rawPath)

\* Generation has completed on an identifier with two separators.
C4_Witness ==
    /\ pc = "done"
    /\ Len(processed) = 1
    /\ LET operationId == OperationAt(1, 1).operationId
       IN operationId.present /\ Separators(operationId.value) = 2
    /\ \E p \in MethodPositions : MethodAt(p).name = <<"unknownName">>

\* The method generated for the k-th processed operation: the methods of a
\* class are appended, so it is the one at the rank of the operation among
\* the processed operations of its service.
GeneratedFor(k) ==
    LET n       == processed[k].fileName
        Mine(e) == e.fileName = n
        rank    == Len(SelectSeq(SubSeq(processed, 1, k), Mine))
        p       == CHOOSE q \in ClassesNamed(n) : TRUE
    IN project[p[1]].classes[p[2]].methods[rank]

(* C5: the generated method has no parameter iff the operation has no      *)
(* request-body content schema and no declared parameter; otherwise it has *)
(* the one parameter 'props' whose fields are the body content field (if   *)
(* there is a body) followed by one field per declared parameter in        *)
(* declaration order, each optional iff not required.                      *)
C5_PropsParameter ==
    \A k \in 1..Len(processed) :
        LET operation  == OperationAt(processed[k].pathIndex, processed[k].methodIndex)
            parameters == operation.parameters
            generated  == GeneratedFor(k).parameters
            offset     == IF HasBodySchema(operation) THEN 1 ELSE 0
        IN /\ generated = <<>> <=> (~HasBodySchema(operation) /\ Len(parameters) = 0)
           /\ generated # <<>> =>
                /\ Len(generated) = 1
                /\ generated[1].name = "props"
                /\ Len(generated[1].properties) = offset + Len(parameters)
                /\ HasBodySchema(operation) =>
                     generated[1].properties[1] =
                         [name |-> operation.requestBody.contentName,
                          hasQuestionToken |-> ~operation.requestBody.required]
                /\ \A i \in 1..Len(parameters) :
                     generated[1].properties[offset + i] =
                         [name |-> parameters[i].name,
                          hasQuestionToken |-> ~parameters[i].required]

\* A method generated for a body and two parameters, one of them optional.
C5_Witness ==
    /\ pc = "done"
    /\ Len(processed) = 1
    /\ HasBodySchema(OperationAt(1, 1))
    /\ Len(OperationAt(1, 1).parameters) = 2
    /\ OperationAt(1, 1).parameters[1].required
    /\ ~OperationAt(1, 1).parameters[2].required
    /\ Len(GeneratedFor(1).parameters[1].properties) = 3

QueryParameters(operation) ==
    LET InQuery(p) == p.in = "query" IN SelectSeq(operation.parameters, InQuery)

QueryNames(operation) ==
    {QueryParameters(operation)[i].name : i \in 1..Len(QueryParameters(operation))}

\* What holds of queryParams whatever the names of the query parameters are.
QueryParamsShape(operation, queryParams) ==
    /\ queryParams = Literal("undefined") <=> Len(QueryParameters(operation)) = 0
    /\ queryParams # Literal("undefined") =>
         /\ queryParams.kind = "object"
         /\ {queryParams.entries[i].key : i \in 1..Len(queryParams.entries)}
                = QueryNames(operation)
         /\ \A i \in 1..Len(queryParams.entries) :
                queryParams.entries[i].value
                    = [target |-> "props", key |-> queryParams.entries[i].key]

(* C6, as stated: queryParams is 'undefined' iff no declared parameter has  *)
(* location 'query'; otherwise it is an object with as many entries as     *)
(* there are query parameters, one per query parameter, mapping its name   *)
(* to props['<name>'], and none for a parameter of another location.       *)
C6_OneEntryPerQueryParameter ==
    \A k \in 1..Len(processed) :
        LET operation   == OperationAt(processed[k].pathIndex, processed[k].methodIndex)
            queryParams == GeneratedFor(k).queryParams
        IN /\ QueryParamsShape(operation, queryParams)
           /\ Len(queryParams.entries) = Len(QueryParameters(operation))

(* C6, amended: queryParams is 'undefined' iff no declared parameter has    *)
(* location 'query'; otherwise it is an object with exactly one entry per  *)
(* distinct name among the query parameters (as many entries as there are  *)
(* query parameters when their names are distinct), mapping the name to    *)
(* props['<name>'], and no entry for a name no query parameter has.        *)
C6_OneEntryPerQueryName ==
    \A k \in 1..Len(processed) :
        LET operation   == OperationAt(processed[k].pathIndex, processed[k].methodIndex)
            queryParams == GeneratedFor(k).queryParams
        IN /\ QueryParamsShape(operation, queryParams)
           /\ Len(queryParams.entries) = Cardinality(QueryNames(operation))
           /\ IsInjective([i \in 1..Len(QueryParameters(operation)) |->
                              QueryParameters(operation)[i].name])
                  => Len(queryParams.entries) = Len(QueryParameters(operation))

\* Two query parameters of the same name, generated as one entry.
C6_Witness ==
    /\ pc = "done"
    /\ Len(processed) = 1
    /\ Len(QueryParameters(OperationAt(1, 1))) = 2
    /\ Cardinality(QueryNames(OperationAt(1, 1))) = 1
    /\ Len(GeneratedFor(1).queryParams.entries) = 1

(* C7: a generated module holds at most one import entry per (source        *)
(* module, type name): a name already imported, by an earlier operation of *)
(* the service or by the same operation (body and response naming the same *)
(* type), is not imported again; every referenced type name is imported.   *)
C7_ImportsUnique ==
    /\ \A f \in 1..Len(project) : IsInjective(project[f].imports)
    /\ \A k \in 1..Len(processed) :
         LET operation == OperationAt(processed[k].pathIndex, processed[k].methodIndex)
         IN \A n \in ReferencedTypes(operation) :
              \A f \in 1..Len(project) :
                 project[f].filePath = FilePath(RootDir, processed[k].fileName)
                     => Includes(project[f].imports, [from |-> ModelsFile, name |-> n])

\* Two operations of one service, each naming the same type as body and as
\* response: it is imported four times over and entered once.
C7_Witness ==
    /\ pc = "done"
    /\ Len(processed) = 2
    /\ OperationAt(processed[1].pathIndex, processed[1].methodIndex) = GetUser
    /\ OperationAt(processed[2].pathIndex, processed[2].methodIndex) = GetUser
    /\ Len(project) = 1
    /\ Len(project[1].imports) = 2

(* C9, as stated: when a path fails the verb check the pass aborts, no      *)
(* operation of the failing path or of a later one is processed, and the   *)
(* project holds nothing produced for the paths before the failing one.    *)
C9_AllOrNothing ==
    pc = "failed" =>
        /\ \A k \in 1..Len(processed) : processed[k].pathIndex < pathIndex
        /\ project = <<>>

(* C9, amended: when a path fails the verb check the pass aborts with the   *)
(* error, no operation of the failing path or of a later one is processed, *)
(* and what was generated for the paths before the failing one stays in    *)
(* the project: there is no rollback.                                      *)
C9_AbortKeepsEarlierPaths ==
    /\ \A k \in 1..Len(processed) : ~BadPath(processed[k].pathIndex)
    /\ pc = "failed" =>
        /\ error.thrown
        /\ BadPath(pathIndex)
        /\ ~ENABLED Next
        /\ [k \in 1..Len(processed) |->
               <<processed[k].pathIndex, processed[k].methodIndex>>] = PairsBefore(pathIndex)
        /\ Cardinality(MethodPositions) = Len(processed)
        /\ \A k \in 1..Len(processed) :
               GeneratedFor(k).url = UrlOf(processed[k].rawPath)

\* The pass failed on its second path after generating for the first.
C9_Witness ==
    /\ pc = "failed"
    /\ pathIndex = 2
    /\ Len(processed) = 2
    /\ Cardinality(MethodPositions) = 2

AllVerbsKnown == \A i \in 1..Len(spec.paths) : ~BadPath(i)

(* C10: on a description whose paths declare known verbs only,              *)
(* generateServices does not throw and appends one method per (path, verb) *)
(* pair, without deduplication: the methods number as many as the pairs,   *)
(* and operations of the same (service, method) leave as many methods of   *)
(* that name on the class.                                                 *)
C10_OneMethodPerOperation ==
    AllVerbsKnown =>
        /\ pc # "failed"
        /\ Cardinality(MethodPositions) = Len(processed)
        /\ pc = "done" =>
             /\ Len(processed) = SumLen([i \in 1..Len(spec.paths) |-> DeclaredAt(i)])
             /\ Cardinality(MethodPositions) = Len(processed)
        /\ \A k \in 1..Len(processed) :
             LET n == processed[k].fileName
                 m == processed[k].methodName
             IN Cardinality({p \in MethodPositions :
                                /\ project[p[1]].classes[p[2]].name = n
                                /\ MethodAt(p).name = m})
                  = Cardinality({l \in 1..Len(processed) :
                                    /\ processed[l].fileName = n
                                    /\ processed[l].methodName = m})

\* Three operations resolved to the same service and method: three methods
\* of one name on one class.
C10_Witness ==
    /\ pc = "done"
    /\ AllVerbsKnown
    /\ Len(processed) = 3
    /\ Cardinality(ClassPositions) = 1
    /\ \A p \in MethodPositions : MethodAt(p).name = <<"unknownName">>
    /\ Cardinality(MethodPositions) = 3

====
